---- MODULE Spec2Model ----
(***************************************************************************)
(* fix-async.py: a line scanner that adds the `async` qualifier to the     *)
(* signature line of every function span whose body holds `.await`, and    *)
(* the directory walker (main) that reads, rewrites and overwrites each    *)
(* file.  Texts are sequences of one-character strings, so that the        *)
(* regular expression, the substring tests, the split and the join are     *)
(* computed on characters as the Python code computes them.                *)
(***************************************************************************)
EXTENDS Integers, Sequences, FiniteSets

VARIABLES
    content,        \* the text handed to fix_async_functions
    lines,          \* content.split('\n')
    result,         \* the output lines gathered so far
    i,              \* the cursor (1-based: Python's i + 1)
    pc,             \* "call" | "loop" | "done" | "idle"
    output,         \* the text fix_async_functions returned
    apps,           \* the number of the application under way (1, 2, ...)
    orig,           \* history: the text of the first application
    tested,         \* history: cursor positions tested against fn_pattern
    spans,          \* history: <<first, last>> of every span the scan took
    replaced,       \* history: positions where line 42-43 ran, this application
    insertions,     \* history: positions whose line changed, all applications
    disk,           \* main: file name -> text stored
    disk0,          \* main: history, the files as the run found them
    todo,           \* main: files glob has not yielded yet
    rust_file,      \* main: the file of the current loop iteration
    fixed_content,  \* main: the text read, then the text to write
    mpc,            \* main: "iter" | "read" | "fix" | "open" | "write" |
                    \*       "exit" | "crashed" | "idle"
    log             \* main: history of the I/O and console events

rewriter_vars == <<content, lines, result, i, pc, output, apps, orig,
                   tested, spans, replaced, insertions>>
main_vars == <<disk, disk0, todo, rust_file, fixed_content, mpc, log>>
vars == <<rewriter_vars, main_vars>>

(***************************************************************************)
(* Bounds and inputs.                                                      *)
(***************************************************************************)
MaxLines == 4

SigPub    == <<"p", "u", "b", " ", "f", "n", " ", "f", "(", ")", " ", "{">>
SigTab    == <<"f", "n", "\t", "f", "(", ")", " ", "{">>
SigTabFn  == <<"f", "n", "\t", "f", "(", ")", " ", "{", " ", "/", "/", " ",
               "f", "n", " ", "p">>
SigAsync  == <<"a", "s", "y", "n", "c", " ", "f", "n", " ", "f", "(", ")",
               " ", "{">>
AwaitLine == <<"x", ".", "a", "w", "a", "i", "t">>
CloseLine == <<"}">>
OneLiner  == <<"f", "n", " ", "g", "(", ")", " ", "{", "}">>
ImplLine  == <<"i", "m", "p", "l", " ", "X", " ", "{">>
EmptyLine == <<>>

LineCatalogue ==
    {SigPub, SigTab, SigTabFn, SigAsync, AwaitLine, CloseLine, OneLiner,
     ImplLine, EmptyLine}

(***************************************************************************)
(* String primitives of the Python code.                                   *)
(***************************************************************************)
NL == "\n"

\* sub in s: the first position where sub starts in s, 0 when there is none.
Find(s, sub) ==
    LET hits == {k \in 1..(Len(s) - Len(sub) + 1) :
                    SubSeq(s, k, k + Len(sub) - 1) = sub}
    IN  IF hits = {} THEN 0 ELSE CHOOSE k \in hits : \A m \in hits : k <= m

Contains(s, sub) == Find(s, sub) # 0

\* s.count(c) for a one-character c
Count(s, c) == Cardinality({k \in 1..Len(s) : s[k] = c})

\* s.replace(old, new, 1)
ReplaceFirst(s, old, new) ==
    LET k == Find(s, old)
    IN  IF k = 0 THEN s
        ELSE SubSeq(s, 1, k - 1) \o new \o SubSeq(s, k + Len(old), Len(s))

\* content.split('\n'): always at least one line
RECURSIVE Split(_)
Split(s) ==
    LET k == Find(s, <<NL>>)
    IN  IF k = 0 THEN <<s>>
        ELSE <<SubSeq(s, 1, k - 1)>> \o Split(SubSeq(s, k + 1, Len(s)))

\* '\n'.join(ls)
RECURSIVE Join(_)
Join(ls) ==
    IF ls = <<>> THEN <<>>
    ELSE IF Len(ls) = 1 THEN ls[1]
    ELSE ls[1] \o <<NL>> \o Join(Tail(ls))

(***************************************************************************)
(* re.match(fn_pattern, line).  Each piece of the pattern maps the set of  *)
(* positions a match may have reached to the set it may reach next, which  *)
(* decides exactly whether some way of matching the pattern exists.        *)
(***************************************************************************)
WordChars ==
    {"a", "b", "c", "d", "e", "f", "g", "h", "i", "j", "k", "l", "m", "n",
     "o", "p", "q", "r", "s", "t", "u", "v", "w", "x", "y", "z",
     "A", "B", "C", "D", "E", "F", "G", "H", "I", "J", "K", "L", "M", "N",
     "O", "P", "Q", "R", "S", "T", "U", "V", "W", "X", "Y", "Z",
     "0", "1", "2", "3", "4", "5", "6", "7", "8", "9", "_"}

\* The character classes of the pattern: \s, \w, [^>], [^)], [^{
InClass(cls, c) ==
    CASE cls = "space"     -> c \in {" ", "\t", "\r", "\f"}
      [] cls = "word"      -> c \in WordChars
      [] cls = "notgt"     -> c # ">"
      [] cls = "notrparen" -> c # ")"
      [] cls = "notlbrace" -> c # "{"

Lit(S, lit, line) ==
    {p + Len(lit) : p \in {q \in S : q + Len(lit) - 1 <= Len(line)
                                     /\ SubSeq(line, q, q + Len(lit) - 1) = lit}}

Star(S, cls, line) ==
    {q \in 1..(Len(line) + 1) :
        \E p \in S : p <= q /\ \A k \in p..(q - 1) : InClass(cls, line[k])}

Plus(S, cls, line) ==
    {q \in 1..(Len(line) + 1) :
        \E p \in S : p < q /\ \A k \in p..(q - 1) : InClass(cls, line[k])}

\* (\s*)(pub\s+)?: the positions where the keyword `fn` may start.
BeforeKeyword(line) ==
    LET indent == Star({1}, "space", line)
    IN  indent \cup Plus(Lit(indent, <<"p", "u", "b">>, line), "space", line)

\* (fn\s+\w+(?:<[^>]+>)?(?:\([^)]*\))(?:\s*->\s*[^{]+)?)\s*\{ from the
\* positions S: the positions right after the opening brace that ends a match.
AfterKeyword(S, line) ==
    LET name   == Plus(Plus(Lit(S, <<"f", "n">>, line), "space", line),
                       "word", line)
        gen    == name \cup Lit(Plus(Lit(name, <<"<">>, line), "notgt", line),
                                <<">">>, line)
        params == Lit(Star(Lit(gen, <<"(">>, line), "notrparen", line),
                      <<")">>, line)
        arrow  == Lit(Star(params, "space", line), <<"-", ">">>, line)
        ret    == params \cup Plus(Star(arrow, "space", line), "notlbrace", line)
    IN  Lit(Star(ret, "space", line), <<"{">>, line)

fn_pattern(line) == AfterKeyword(BeforeKeyword(line), line)

FnMatch(line) == fn_pattern(line) # {}

(***************************************************************************)
(* fix_async_functions: the scan of one matched function (lines 21-46).    *)
(***************************************************************************)
Marker      == <<".", "a", "w", "a", "i", "t">>
AsyncFn     == <<"a", "s", "y", "n", "c", " ", "f", "n">>
FnSpace     == <<"f", "n", " ">>
AsyncFnSpace == <<"a", "s", "y", "n", "c", " ", "f", "n", " ">>

\* brace_count = 1: the opening brace of the signature line
InitialBraceCount == 1

\* Faulty variant of BraceDelta: a count that sees the closing braces only.
BraceDeltaClosesOnly(line) == 0 - Count(line, "}")

\* lines[j].count('{') - lines[j].count('}')
BraceDelta(line) == Count(line, "{") - Count(line, "}")

\* while j < len(lines) and brace_count > 0: the values of j and fn_body
\* when the loop ends (fn_lines is lines[i..j-1]).
RECURSIVE InnerLoop(_, _, _, _)
InnerLoop(ls, j, brace_count, fn_body) ==
    IF j <= Len(ls) /\ brace_count > 0
    THEN InnerLoop(ls, j + 1, brace_count + BraceDelta(ls[j]),
                   fn_body \o ls[j] \o <<NL>>)
    ELSE [j |-> j, fn_body |-> fn_body]

FindEnd(ls, at) == InnerLoop(ls, at + 1, InitialBraceCount, <<>>)

\* Faulty variant of NeedsAsync: the marker test without the qualifier test.
NeedsAsyncMarkerOnly(line, fn_body) == Contains(fn_body, Marker)

\* Faulty variant of NeedsAsync: the qualifier looked for in the body
\* instead of the signature line.
NeedsAsyncInBody(line, fn_body) ==
    Contains(fn_body, Marker) /\ ~Contains(fn_body, AsyncFn)

\* if '.await' in fn_body: if 'async fn' not in line:
NeedsAsync(line, fn_body) ==
    Contains(fn_body, Marker) /\ ~Contains(line, AsyncFn)

\* line.replace('fn ', 'async fn ', 1)
MakeAsync(line) == ReplaceFirst(line, FnSpace, AsyncFnSpace)

\* The signature line as it is appended to result.
FirstLine(line, fn_body) ==
    IF NeedsAsync(line, fn_body) THEN MakeAsync(line) ELSE line

\* Faulty variant of FnLines: fn_lines one line short of the span.
FnLinesShort(ls, at) ==
    LET e == FindEnd(ls, at)
    IN  <<FirstLine(ls[at], e.fn_body)>> \o SubSeq(ls, at + 1, e.j - 2)

\* fn_lines when result.extend(fn_lines) runs
FnLines(ls, at) ==
    LET e == FindEnd(ls, at)
    IN  <<FirstLine(ls[at], e.fn_body)>> \o SubSeq(ls, at + 1, e.j - 1)

\* Faulty variant of Resume: the cursor advanced by one line, as for a line
\* that does not match.
ResumeNextLine(ls, at) == at + 1

\* i = j
Resume(ls, at) == FindEnd(ls, at).j

\* The whole function on a text, for main.
RECURSIVE OuterLoop(_, _, _)
OuterLoop(ls, at, res) ==
    IF at > Len(ls) THEN res
    ELSE IF FnMatch(ls[at])
         THEN OuterLoop(ls, Resume(ls, at), res \o FnLines(ls, at))
         ELSE OuterLoop(ls, at + 1, Append(res, ls[at]))

fix_async_functions(text) == Join(OuterLoop(Split(text), 1, <<>>))

(***************************************************************************)
(* Inputs of the rewriter: every text of one to MaxLines catalogue lines.  *)
(***************************************************************************)
LineSeqs == UNION {[1..n -> LineCatalogue] : n \in 1..MaxLines}

Texts == {Join(ls) : ls \in LineSeqs}

MainIdle ==
    /\ disk = <<>>
    /\ disk0 = <<>>
    /\ todo = {}
    /\ rust_file = "none"
    /\ fixed_content = <<>>
    /\ mpc = "idle"
    /\ log = <<>>

Init ==
    /\ content \in Texts
    /\ orig = content
    /\ lines = <<>>
    /\ result = <<>>
    /\ i = 1
    /\ pc = "call"
    /\ output = <<>>
    /\ apps = 1
    /\ tested = {}
    /\ spans = {}
    /\ replaced = {}
    /\ insertions = <<>>
    /\ MainIdle

(***************************************************************************)
(* The steps of fix_async_functions.                                       *)
(***************************************************************************)
\* lines 12-14: lines = content.split('\n'); result = []; i = 0
Begin ==
    /\ pc = "call"
    /\ lines' = Split(content)
    /\ result' = <<>>
    /\ i' = 1
    /\ pc' = "loop"
    /\ tested' = {}
    /\ spans' = {}
    /\ replaced' = {}
    /\ UNCHANGED <<content, output, apps, orig, insertions, main_vars>>

\* lines 17-46: the line at the cursor matches fn_pattern
ScanFunction ==
    /\ pc = "loop"
    /\ i <= Len(lines)
    /\ FnMatch(lines[i])
    /\ LET e == FindEnd(lines, i)
           fn_lines == FnLines(lines, i)
       IN  /\ result' = result \o fn_lines
           /\ i' = Resume(lines, i)
           /\ tested' = tested \cup {i}
           /\ spans' = spans \cup {<<i, i + Len(fn_lines) - 1>>}
           /\ replaced' = IF NeedsAsync(lines[i], e.fn_body)
                          THEN replaced \cup {i} ELSE replaced
           /\ insertions' = IF fn_lines[1] # lines[i]
                            THEN Append(insertions, i) ELSE insertions
    /\ UNCHANGED <<content, lines, pc, output, apps, orig, main_vars>>

\* lines 17-20, 47-49: the line at the cursor does not match
ScanLine ==
    /\ pc = "loop"
    /\ i <= Len(lines)
    /\ ~FnMatch(lines[i])
    /\ result' = Append(result, lines[i])
    /\ i' = i + 1
    /\ tested' = tested \cup {i}
    /\ UNCHANGED <<content, lines, pc, output, apps, orig, spans, replaced,
                   insertions, main_vars>>

\* lines 16, 51: the loop ends; return '\n'.join(result)
Return ==
    /\ pc = "loop"
    /\ i > Len(lines)
    /\ output' = Join(result)
    /\ pc' = "done"
    /\ UNCHANGED <<content, lines, result, i, apps, orig, tested, spans,
                   replaced, insertions, main_vars>>

\* The tool is run again on the text it wrote (main, lines 60-63).  A run
\* on a text the last run left unchanged repeats that run step for step,
\* so the iteration is followed until the text stops changing.
Rerun ==
    /\ pc = "done"
    /\ output # content
    /\ apps <= Len(lines)
    /\ content' = output
    /\ apps' = apps + 1
    /\ pc' = "call"
    /\ UNCHANGED <<lines, result, i, output, orig, tested, spans, replaced,
                   insertions, main_vars>>

Next == Begin \/ ScanFunction \/ ScanLine \/ Return \/ Rerun

Spec == Init /\ [][Next]_vars

(***************************************************************************)
(* main (lines 53-68): the directory walker.  Opening a file for reading   *)
(* or writing and the read and the write themselves may raise; nothing     *)
(* catches the exception, so the run ends there.  open(..., 'w') empties   *)
(* the file, and a write that fails may have stored any proper prefix of   *)
(* the text.                                                               *)
(***************************************************************************)
FileNames == {"a.rs", "b.rs"}

MainTexts ==
    {Join(<<OneLiner, SigPub, AwaitLine, CloseLine>>),
     Join(<<SigAsync, AwaitLine, CloseLine, EmptyLine>>),
     Join(<<SigPub, AwaitLine, CloseLine, EmptyLine>>)}

RewriterIdle ==
    /\ lines = <<>>
    /\ result = <<>>
    /\ i = 1
    /\ pc = "idle"
    /\ output = <<>>
    /\ apps = 0
    /\ orig = <<>>
    /\ tested = {}
    /\ spans = {}
    /\ replaced = {}
    /\ insertions = <<>>

MainInit ==
    /\ \E files \in SUBSET FileNames : disk \in [files -> MainTexts]
    /\ disk0 = disk
    /\ todo = DOMAIN disk
    /\ rust_file = "none"
    /\ content = <<>>
    /\ fixed_content = <<>>
    /\ mpc = "iter"
    /\ log = <<>>
    /\ RewriterIdle

main_frame == <<lines, result, i, pc, output, apps, orig, tested, spans,
                replaced, insertions, disk0>>

\* lines 57-58: glob yields the next file; print "Processing ..."
MainNextFile ==
    /\ mpc = "iter"
    /\ \E f \in todo :
        /\ rust_file' = f
        /\ todo' = todo \ {f}
        /\ log' = Append(log, <<"processing", f>>)
    /\ mpc' = "read"
    /\ UNCHANGED <<content, fixed_content, disk, main_frame>>

\* lines 60-61: content = f.read()
MainRead ==
    /\ mpc = "read"
    /\ content' = disk[rust_file]
    /\ log' = Append(log, <<"read", rust_file>>)
    /\ mpc' = "fix"
    /\ UNCHANGED <<fixed_content, disk, todo, rust_file, main_frame>>

\* Faulty variant of MainReadFail: a read failure that skips the file and
\* goes on with the next one.
MainReadFailSkip ==
    /\ mpc = "read"
    /\ log' = Append(log, <<"read_failed", rust_file>>)
    /\ mpc' = "iter"
    /\ UNCHANGED <<content, fixed_content, disk, todo, rust_file, main_frame>>

\* lines 60-61: open or read raises
MainReadFail ==
    /\ mpc = "read"
    /\ log' = Append(log, <<"read_failed", rust_file>>)
    /\ mpc' = "crashed"
    /\ UNCHANGED <<content, fixed_content, disk, todo, rust_file, main_frame>>

\* line 63: fixed_content = fix_async_functions(content)
MainFix ==
    /\ mpc = "fix"
    /\ fixed_content' = fix_async_functions(content)
    /\ log' = Append(log, <<"fixed", rust_file>>)
    /\ mpc' = "open"
    /\ UNCHANGED <<content, disk, todo, rust_file, main_frame>>

\* line 65: open(rust_file, 'w') empties the file
MainOpenWrite ==
    /\ mpc = "open"
    /\ disk' = [disk EXCEPT ![rust_file] = <<>>]
    /\ log' = Append(log, <<"opened", rust_file>>)
    /\ mpc' = "write"
    /\ UNCHANGED <<content, fixed_content, todo, rust_file, main_frame>>

\* line 65: open(rust_file, 'w') raises
MainOpenWriteFail ==
    /\ mpc = "open"
    /\ log' = Append(log, <<"open_failed", rust_file>>)
    /\ mpc' = "crashed"
    /\ UNCHANGED <<content, fixed_content, disk, todo, rust_file, main_frame>>

\* line 66 and the end of the with block: the text is written and flushed
MainWrite ==
    /\ mpc = "write"
    /\ disk' = [disk EXCEPT ![rust_file] = fixed_content]
    /\ log' = Append(log, <<"written", rust_file>>)
    /\ mpc' = "iter"
    /\ UNCHANGED <<content, fixed_content, todo, rust_file, main_frame>>

\* line 66: the write or the flush raises
MainWriteFail ==
    /\ mpc = "write"
    /\ \E n \in 0..(Len(fixed_content) - 1) :
        disk' = [disk EXCEPT ![rust_file] = SubSeq(fixed_content, 1, n)]
    /\ log' = Append(log, <<"write_failed", rust_file>>)
    /\ mpc' = "crashed"
    /\ UNCHANGED <<content, fixed_content, todo, rust_file, main_frame>>

\* line 68: print "Done fixing async functions"
MainDone ==
    /\ mpc = "iter"
    /\ todo = {}
    /\ log' = Append(log, <<"done", "none">>)
    /\ mpc' = "exit"
    /\ UNCHANGED <<content, fixed_content, disk, todo, rust_file, main_frame>>

MainNext ==
    \/ MainNextFile
    \/ MainRead
    \/ MainReadFail
    \/ MainFix
    \/ MainOpenWrite
    \/ MainOpenWriteFail
    \/ MainWrite
    \/ MainWriteFail
    \/ MainDone

SpecMain == MainInit /\ [][MainNext]_vars

(***************************************************************************)
(* Vocabulary of the properties, stated without the operators of the scan. *)
(***************************************************************************)
OutLines == Split(output)

\* The running brace-depth count at line k of a span that starts at line s.
RECURSIVE Depth(_, _, _)
Depth(ls, s, k) ==
    IF k <= s THEN 1
    ELSE Depth(ls, s, k - 1)
         + Cardinality({c \in 1..Len(ls[k]) : ls[k][c] = "{"})
         - Cardinality({c \in 1..Len(ls[k]) : ls[k][c] = "}"})

\* The last line of the function whose signature is line s: the first line
\* after s where the depth is no longer positive, the last line of the text
\* when there is none.
LastLineOf(ls, s) ==
    LET closing == {k \in (s + 1)..Len(ls) : Depth(ls, s, k) <= 0}
    IN  IF closing = {} THEN Len(ls)
        ELSE CHOOSE k \in closing : \A m \in closing : k <= m

\* The body text of that function: its lines after the signature line.
BodyOf(ls, s) == Join(SubSeq(ls, s + 1, LastLineOf(ls, s)))

\* The keyword `fn` the signature pattern matched starts at p.
MatchedKeywordAt(line, p) ==
    p \in BeforeKeyword(line) /\ AfterKeyword({p}, line) # {}

\* line with `async ` put in right before position p
WithAsyncAt(line, p) ==
    SubSeq(line, 1, p - 1) \o <<"a", "s", "y", "n", "c", " ">>
        \o SubSeq(line, p, Len(line))

(***************************************************************************)
(* C1.  In the text fix_async_functions returns, every function definition *)
(* whose body contains `.await` carries `async fn` on its signature line,  *)
(* whatever its position in the file.                                      *)
(***************************************************************************)
C1_EveryAwaitFunctionIsAsync ==
    pc = "done" =>
        \A k \in 1..Len(OutLines) :
            (FnMatch(OutLines[k]) /\ Contains(BodyOf(OutLines, k), Marker))
                => Contains(OutLines[k], AsyncFn)

(***************************************************************************)
(* C2.  For every function span the scan found, the signature line is      *)
(* modified if and only if the body text contains `.await` and the         *)
(* signature does not already carry the async qualifier.                   *)
(***************************************************************************)
C2_MarkerGatedRewrite ==
    pc = "done" =>
        \A sp \in spans :
            (OutLines[sp[1]] # lines[sp[1]])
                <=> (/\ Contains(Join(SubSeq(lines, sp[1] + 1, sp[2])), Marker)
                     /\ ~Contains(lines[sp[1]], AsyncFn))

(***************************************************************************)
(* C3.  Idempotence: applying fix_async_functions to its own output        *)
(* returns that output unchanged.                                          *)
(***************************************************************************)
C3_Idempotent ==
    (pc = "done" /\ apps = 2) => output = content

(***************************************************************************)
(* C4.  The output has exactly as many lines as the input, in the same     *)
(* order, and every line other than a matched-and-rewritten signature line *)
(* is identical to the input line at the same position; the newline        *)
(* characters, a trailing one included, are those of the input.            *)
(***************************************************************************)
C4_VerbatimOutsideEdit ==
    /\ pc = "loop" =>
        /\ Len(result) = i - 1
        /\ \A k \in 1..Len(result) :
            result[k] # lines[k] => (k \in replaced /\ FnMatch(lines[k]))
    /\ pc = "done" =>
        LET out == Split(output)
        IN  /\ Count(output, NL) = Count(content, NL)
            /\ Len(out) = Len(lines)
            /\ \A k \in 1..Len(lines) :
                out[k] # lines[k]
                    => (k \in replaced /\ k \in tested /\ FnMatch(lines[k]))

C4_Witness ==
    /\ pc = "done"
    /\ output # content
    /\ output[Len(output)] = NL
    /\ \E sp \in spans :
        /\ sp[1] \in replaced
        /\ sp[2] = Len(lines)
        /\ Depth(lines, sp[1], sp[2]) > 0

(***************************************************************************)
(* C5.  Whenever a signature line is rewritten, the new line is the old    *)
(* line with `async ` inserted immediately before the keyword `fn` that    *)
(* the signature pattern matched, and nothing else changed.                *)
(***************************************************************************)
C5_InsertionLocality ==
    pc = "done" =>
        \A k \in 1..Len(lines) :
            OutLines[k] # lines[k]
                => \E p \in 1..Len(lines[k]) :
                    /\ MatchedKeywordAt(lines[k], p)
                    /\ OutLines[k] = WithAsyncAt(lines[k], p)

(***************************************************************************)
(* C6.  Span integrity: the span taken for a signature line matched at the *)
(* cursor runs from that line through the first following line where the   *)
(* running brace depth (1 on the signature line, +1 per `{` and -1 per `}` *)
(* of each following line) is no longer positive, or through the last line *)
(* of the text when the depth stays positive; the cursor resumes at the    *)
(* line right after the span.                                              *)
(***************************************************************************)
C6_SpanIntegrity ==
    /\ \A k \in tested :
        FnMatch(lines[k]) => \E sp \in spans : sp[1] = k
    /\ \A sp \in spans :
        /\ sp[1] \in tested
        /\ FnMatch(lines[sp[1]])
        /\ sp[1] <= sp[2] /\ sp[2] <= Len(lines)
        /\ \A k \in (sp[1] + 1)..(sp[2] - 1) : Depth(lines, sp[1], k) > 0
        /\ sp[2] < Len(lines)
            => (sp[2] > sp[1] /\ Depth(lines, sp[1], sp[2]) <= 0)
        /\ i > sp[2]
        /\ (i = sp[2] + 1 \/ (sp[2] + 1) \in tested)
        /\ \A k \in (sp[1] + 1)..sp[2] : k \notin tested

C6_Witness ==
    /\ pc = "done"
    /\ \E sp \in spans :
        /\ Depth(lines, sp[1], sp[2]) = 0
        /\ \E k \in (sp[1] + 1)..(sp[2] - 1) :
            lines[k] = CloseLine /\ Depth(lines, sp[1], k) = 1

\* line is a signature line that carries the qualifier: it holds `async fn`
\* and is a signature once `async ` is taken out.
AsyncSignature(line) ==
    /\ Contains(line, AsyncFn)
    /\ FnMatch(ReplaceFirst(line, <<"a", "s", "y", "n", "c", " ">>, <<>>))

C10_IterationSettles ==
    LET n   == Len(Split(orig))
        out == Split(output)
    IN  /\ pc # "call" => Len(lines) = n
        /\ \A a, b \in 1..Len(insertions) :
            insertions[a] = insertions[b] => a = b
        /\ pc = "done" =>
            /\ Len(out) = n
            /\ \A a \in 1..Len(insertions) :
                Contains(out[insertions[a]], AsyncFn)
            /\ apps >= n => output = content

C10_Witness ==
    /\ pc = "done"
    /\ apps = Len(Split(orig))
    /\ apps >= 3
    /\ output = content
    /\ Len(insertions) >= 2

\* The events of main that end the run.
Failures == {"read_failed", "open_failed", "write_failed"}

IsPrefix(p, t) == Len(p) <= Len(t) /\ SubSeq(t, 1, Len(p)) = p

\* The event that must come right before each kind of event on the same file.
Before(kind) ==
    CASE kind = "read"         -> "processing"
      [] kind = "read_failed"  -> "processing"
      [] kind = "fixed"        -> "read"
      [] kind = "opened"       -> "fixed"
      [] kind = "open_failed"  -> "fixed"
      [] kind = "written"      -> "opened"
      [] kind = "write_failed" -> "opened"
      [] OTHER                 -> "none"

(***************************************************************************)
(* C9.  main handles the files one at a time in the order read, transform, *)
(* write: a file is opened for writing only after it was read in full and  *)
(* its transformed text computed; a read or write failure ends the run, so *)
(* that no later file is read or written and the completion notice is not  *)
(* printed; no file ends up holding half-transformed content.              *)
(***************************************************************************)
C9_ReadTransformWrite ==
    /\ \A n \in 1..Len(log) :
        /\ Before(log[n][1]) # "none"
            => (n > 1 /\ log[n - 1] = <<Before(log[n][1]), log[n][2]>>)
        /\ log[n][1] = "processing"
            => (n > 1 => log[n - 1][1] = "written")
        /\ log[n][1] = "done"
            => (n > 1 => log[n - 1][1] = "written")
        /\ log[n][1] \in Failures => (n = Len(log) /\ mpc = "crashed")
    /\ mpc = "crashed" => (Len(log) > 0 /\ log[Len(log)][1] \in Failures)
    /\ mpc = "fix" => content = disk0[rust_file]
    /\ mpc \in {"open", "write"}
        => fixed_content = fix_async_functions(disk0[rust_file])
    /\ \A f \in DOMAIN disk :
        \/ disk[f] = disk0[f]
        \/ IsPrefix(disk[f], fix_async_functions(disk0[f]))
    /\ \A f \in DOMAIN disk :
        (\E n \in 1..Len(log) : log[n] = <<"written", f>>)
            => disk[f] = fix_async_functions(disk0[f])
    /\ mpc = "exit"
        => \A f \in DOMAIN disk : disk[f] = fix_async_functions(disk0[f])

C9_Witness ==
    /\ mpc = "crashed"
    /\ log[Len(log)][1] = "write_failed"
    /\ todo = {}
    /\ \E f \in DOMAIN disk :
        /\ <<"written", f>> = log[5]
        /\ disk[f] # disk0[f]
    /\ disk[rust_file] # <<>>
    /\ disk[rust_file] # disk0[rust_file]

====
